---- MODULE Spec2Model ----
(***************************************************************************)
(* Multi-agent RAG system: the agent workflow state machine                *)
(* (src/agents/workflow.py), the document store                            *)
(* (src/document_processor/file_handler.py) and the hybrid index           *)
(* (src/retriever/builder.py) and the submit handler of the UI             *)
(* (src/app.py).                                                           *)
(***************************************************************************)
EXTENDS Integers, Sequences, FiniteSets, TLC

(***************************************************************************)
(* Bounds of the exploration.                                              *)
(***************************************************************************)
\* Research->Verify cycles explored per run (build_workflow sets no cap).
MaxCycles == 3
\* The retry cap the design asks for (2-3 cycles), kept below MaxCycles so
\* that a run can be seen to go past it.
RetryCap == MaxCycles - 1
\* Files per batch, process calls, and the largest max_chunks tried.
MaxFiles == 2
MaxCalls == 2
MaxChunks == 2
\* config.constants.MAX_TOTAL_SIZE, counted in pieces of text.
MAX_TOTAL_SIZE == 3
\* config.settings.CACHE_EXPIRE_DAYS
CACHE_EXPIRE_DAYS == 1
\* The clock runs until an entry written on day 0 has expired.
MaxTime == CACHE_EXPIRE_DAYS
\* Longest verification report, in tokens.
MaxReportLen == 3
\* build_hybrid_retriever calls made on one RetrieverBuilder.
MaxBuilds == 2
\* Clicks on Submit in one UI session.
MaxSubmits == 3
\* search_kwargs k of the vector retriever (10 in the code), scaled down to
\* the size of the chunk lists explored.
VECTOR_K == 3
\* k of BM25Retriever (the library default, 4), scaled down likewise.
BM25_K == 2

(***************************************************************************)
(* AGENT WORKFLOW  (src/agents/workflow.py)                                *)
(***************************************************************************)

VARIABLES
    pc,               \* per run: position of full_pipeline / the graph
    state,            \* per run: the AgentState threaded through the graph
    result,           \* per run: the dict returned by full_pipeline
    raised,           \* per run: the stage whose call raised, or "none"
    classification,   \* per run: what RelevanceChecker.check returned
    researcher_calls, \* per run: ResearchAgent.generate invocations
    verifier_calls,   \* per run: VerificationAgent.check invocations
    all_unsupported,  \* per run: every report so far held "Supported: NO"
    stage_args        \* per run: the arguments of the last generate and of
                      \* the last verifier check call, and the report the
                      \* last check call returned

wfVars == <<pc, state, result, raised, classification, researcher_calls,
            verifier_calls, all_unsupported, stage_args>>

(***************************************************************************)
(* DOCUMENT STORE  (src/document_processor/file_handler.py)                *)
(***************************************************************************)

VARIABLES
    embeddings,    \* DocumentProcessor.embeddings is set
    cache_dir,     \* cache path -> pickle file (or Missing)
    now,           \* the clock, in days
    calls,         \* process calls made so far
    ppc,           \* position of the current process call
    files,         \* its argument: the batch of files
    max_chunks,    \* its argument max_chunks, as read by the cut after the loop
    idx,           \* index of the file the loop is at
    all_chunks,    \* local all_chunks
    seen_hashes,   \* local seen_hashes
    outcomes,      \* per file of the batch: "ok", "skipped" or "failed"
    returned_chunks \* the list process returned

dpVars == <<embeddings, cache_dir, now, calls, ppc, files, max_chunks, idx,
            all_chunks, seen_hashes, outcomes, returned_chunks>>

(***************************************************************************)
(* HYBRID INDEX  (src/retriever/builder.py)                                *)
(***************************************************************************)

VARIABLES
    qdrant,        \* the points of the collection docchat_documents, in
                   \* the order they were added
    retriever,     \* the HybridRetriever the last successful build returned
    build_status,  \* how the last build_hybrid_retriever call ended
    builds,        \* build_hybrid_retriever calls made so far
    sub_results,   \* last query: what each sub-retriever returned
    fused          \* last query: what the HybridRetriever returned

rbVars == <<qdrant, retriever, build_status, builds, sub_results, fused>>

(***************************************************************************)
(* UI SESSION  (src/app.py)                                                *)
(***************************************************************************)

VARIABLES
    session,        \* st.session_state: uploaded_files, file_hashes, retriever
    built_from,     \* the hash set of the files session.retriever was built
                    \* from
    pipeline_call,  \* last submit: the full_pipeline call it made, if any
    submits         \* clicks on Submit so far

appVars == <<session, built_from, pipeline_call, submits>>

(***************************************************************************)
(* CONCURRENT process INVOCATIONS  (src/document_processor/file_handler.py)*)
(***************************************************************************)

VARIABLES
    workers   \* per invocation: where it is in the loop body of its file,
              \* the file, and the chunks it has got for it

raceVars == <<workers>>

vars == <<wfVars, dpVars, rbVars, appVars, raceVars>>

\* The runs of full_pipeline a behaviour follows.
Runs == DOMAIN pc

NoResult == [returned |-> FALSE]
NoClass == "<none>"

\* Inputs and stage outputs.
Questions == {"q1"}
Evidence == {<<>>, <<"e1">>}
Drafts == {"draft_a", "draft_b"}
Classifications == {"CAN_ANSWER", "PARTIAL", "NO_DATA", "OFF_TOPIC"}

NOT_RELEVANT ==
    "This question is not related to the uploaded document(s), or there is insufficient information to answer it."

\* A report is a text; it is modelled as the sequence of its tokens.
Tokens == {"Supported:", "Relevant:", "NO", "YES"}

SupportedNo == <<"Supported:", "NO">>
RelevantNo == <<"Relevant:", "NO">>
SupportedYes == <<"Supported:", "YES">>
RelevantYes == <<"Relevant:", "YES">>
Markers == {SupportedNo, RelevantNo, SupportedYes, RelevantYes}

\* Every text of up to MaxReportLen tokens.
ShortReports == UNION {[1..n -> Tokens] : n \in 0..MaxReportLen}

\* Every text made of two judgments.
JudgmentReports == {m1 \o m2 : m1 \in Markers, m2 \in Markers}

\* The reports the Verifier may return.  A single run is followed through
\* all of them, runs side by side through the reports made of one judgment.
Reports ==
    IF Cardinality(Runs) > 1 THEN Markers
    ELSE ShortReports \cup JudgmentReports

\* Python's `marker in report`: marker occurs as a contiguous piece of report.
Contains(report, marker) ==
    \E i \in 1..(Len(report) - Len(marker) + 1) :
        SubSeq(report, i, i + Len(marker) - 1) = marker

\* No call made yet.
NoArgs == [researcher |-> <<>>, verifier |-> <<>>, report |-> <<>>]

\* The keyword arguments _research_step passes to researcher.generate.
research_step_args(s) == [question |-> s.question, documents |-> s.documents]

\* The keyword arguments _verification_step passes to verifier.check.
verification_step_args(s) ==
    [answer |-> s.draft_answer, documents |-> s.documents]

\* AgentState as built by full_pipeline before the graph is invoked.
initial_state(question, documents) ==
    [question |-> question,
     documents |-> documents,
     draft_answer |-> "",
     verification_report |-> <<>>,
     is_relevant |-> FALSE]

\* Variant: a PARTIAL answer of the gate empties the evidence.
check_relevance_step_partial_clears(s, cls) ==
    IF cls = "CAN_ANSWER"
    THEN [s EXCEPT !.is_relevant = TRUE]
    ELSE IF cls = "PARTIAL"
    THEN [s EXCEPT !.is_relevant = TRUE, !.documents = <<>>]
    ELSE [s EXCEPT !.is_relevant = FALSE, !.draft_answer = NOT_RELEVANT]

\* Variant: only CAN_ANSWER opens the gate.
check_relevance_step_strict(s, cls) ==
    IF cls = "CAN_ANSWER"
    THEN [s EXCEPT !.is_relevant = TRUE]
    ELSE [s EXCEPT !.is_relevant = FALSE, !.draft_answer = NOT_RELEVANT]

\* The update _check_relevance_step returns, merged into the state.
check_relevance_step(s, cls) ==
    IF cls \in {"CAN_ANSWER", "PARTIAL"}
    THEN [s EXCEPT !.is_relevant = TRUE]
    ELSE [s EXCEPT !.is_relevant = FALSE, !.draft_answer = NOT_RELEVANT]

decide_after_relevance_check(s) ==
    IF s.is_relevant THEN "relevant" ELSE "irrelevant"

\* Variant: only the "Supported: NO" marker sends the run back.
decide_next_step_supported_only(s) ==
    IF Contains(s.verification_report, SupportedNo)
    THEN "re_research"
    ELSE "end"

\* Variant: any "NO" in the report sends the run back.
decide_next_step_any_no(s) ==
    IF Contains(s.verification_report, <<"NO">>)
    THEN "re_research"
    ELSE "end"

\* Variant: the run ends only on an explicit "Supported: YES".
decide_next_step_need_yes(s) ==
    IF Contains(s.verification_report, SupportedYes)
       /\ ~Contains(s.verification_report, SupportedNo)
       /\ ~Contains(s.verification_report, RelevantNo)
    THEN "end"
    ELSE "re_research"

\* _decide_next_step: the route taken after the verify node.
decide_next_step(s) ==
    IF Contains(s.verification_report, SupportedNo)
       \/ Contains(s.verification_report, RelevantNo)
    THEN "re_research"
    ELSE "end"

\* Variant: the draft of the research node is returned unverified.
build_workflow_unverified(node, decision) ==
    CASE node = "check_relevance" /\ decision = "relevant" -> "research"
      [] node = "check_relevance" /\ decision = "irrelevant" -> "END"
      [] node = "research" -> "END"
      [] node = "verify" /\ decision = "re_research" -> "research"
      [] node = "verify" /\ decision = "end" -> "END"

\* The conditional edges of build_workflow: node reached for a decision.
build_workflow(node, decision) ==
    CASE node = "check_relevance" /\ decision = "relevant" -> "research"
      [] node = "check_relevance" /\ decision = "irrelevant" -> "END"
      [] node = "research" -> "verify"
      [] node = "verify" /\ decision = "re_research" -> "research"
      [] node = "verify" /\ decision = "end" -> "END"

\* What full_pipeline returns once the graph has reached END.
final_result(s) ==
    [returned |-> TRUE,
     draft_answer |-> s.draft_answer,
     verification_report |-> s.verification_report]

\* Variant: a Verifier error is taken as a failed verification and retried.
Propagate_retry(r, stage) ==
    /\ pc' = [pc EXCEPT ![r] = IF stage = "verifier" THEN "research" ELSE "raised"]
    /\ raised' = [raised EXCEPT ![r] = stage]
    /\ UNCHANGED <<state, result, classification, all_unsupported>>

\* A stage call raised: the graph and full_pipeline re-raise it.
Propagate(r, stage) ==
    /\ pc' = [pc EXCEPT ![r] = "raised"]
    /\ raised' = [raised EXCEPT ![r] = stage]
    /\ UNCHANGED <<state, result, classification, all_unsupported>>

\* Variant: the Agent State is kept on the AgentWorkflow, one for all runs.
Goto_shared_state(r, next, s) ==
    /\ state' = [q \in Runs |-> s]
    /\ IF next = "END"
       THEN /\ pc' = [pc EXCEPT ![r] = "returned"]
            /\ result' = [result EXCEPT ![r] = final_result(s)]
       ELSE /\ pc' = [pc EXCEPT ![r] = next]
            /\ UNCHANGED result

\* Variant: at END the report the state held before the step is returned.
Goto_stale_report(r, next, s) ==
    /\ state' = [state EXCEPT ![r] = s]
    /\ IF next = "END"
       THEN /\ pc' = [pc EXCEPT ![r] = "returned"]
            /\ result' = [result EXCEPT ![r] =
                             final_result([s EXCEPT !.verification_report =
                                              state[r].verification_report])]
       ELSE /\ pc' = [pc EXCEPT ![r] = next]
            /\ UNCHANGED result

\* The graph moves to `next`; at END full_pipeline returns.
Goto(r, next, s) ==
    /\ state' = [state EXCEPT ![r] = s]
    /\ IF next = "END"
       THEN /\ pc' = [pc EXCEPT ![r] = "returned"]
            /\ result' = [result EXCEPT ![r] = final_result(s)]
       ELSE /\ pc' = [pc EXCEPT ![r] = next]
            /\ UNCHANGED result

\* full_pipeline up to the graph invocation: retriever.invoke(question).
full_pipeline(r) ==
    /\ pc[r] = "start"
    /\ UNCHANGED stage_args
    /\ \/ \E q \in Questions, docs \in Evidence :
            /\ pc' = [pc EXCEPT ![r] = "check_relevance"]
            /\ state' = [state EXCEPT ![r] = initial_state(q, docs)]
            /\ UNCHANGED <<result, raised, classification, researcher_calls,
                           verifier_calls, all_unsupported>>
       \/ /\ Propagate(r, "retriever")
          /\ UNCHANGED <<researcher_calls, verifier_calls>>

CheckRelevance(r) ==
    /\ pc[r] = "check_relevance"
    /\ UNCHANGED stage_args
    /\ \/ \E cls \in Classifications :
            LET s == check_relevance_step(state[r], cls)
                next == build_workflow("check_relevance",
                                       decide_after_relevance_check(s))
            IN /\ classification' = [classification EXCEPT ![r] = cls]
               /\ Goto(r, next, s)
               /\ UNCHANGED <<raised, researcher_calls, verifier_calls,
                              all_unsupported>>
       \/ /\ Propagate(r, "relevance_checker")
          /\ UNCHANGED <<researcher_calls, verifier_calls>>

Research(r) ==
    /\ pc[r] = "research"
    /\ researcher_calls[r] < MaxCycles
    /\ researcher_calls' = [researcher_calls EXCEPT ![r] = @ + 1]
    /\ stage_args' = [stage_args EXCEPT
                         ![r].researcher = research_step_args(state[r])]
    /\ \/ \E d \in Drafts :
            LET s == [state[r] EXCEPT !.draft_answer = d]
            IN /\ Goto(r, build_workflow("research", "-"), s)
               /\ UNCHANGED <<raised, classification, verifier_calls,
                              all_unsupported>>
       \/ /\ Propagate(r, "researcher")
          /\ UNCHANGED verifier_calls

Verify(r) ==
    /\ pc[r] = "verify"
    /\ verifier_calls' = [verifier_calls EXCEPT ![r] = @ + 1]
    /\ \/ \E rep \in Reports :
            LET s == [state[r] EXCEPT !.verification_report = rep]
                next == build_workflow("verify", decide_next_step(s))
            IN /\ Goto(r, next, s)
               /\ stage_args' =
                     [stage_args EXCEPT
                         ![r].verifier = verification_step_args(state[r]),
                         ![r].report = rep]
               /\ all_unsupported' =
                     [all_unsupported EXCEPT ![r] = @ /\ Contains(rep, SupportedNo)]
               /\ UNCHANGED <<raised, classification, researcher_calls>>
       \/ /\ Propagate(r, "verifier")
          /\ stage_args' =
                [stage_args EXCEPT
                    ![r].verifier = verification_step_args(state[r])]
          /\ UNCHANGED researcher_calls

WfInit(runs) ==
    /\ pc = [r \in runs |-> "start"]
    /\ state = [r \in runs |-> initial_state("", <<>>)]
    /\ result = [r \in runs |-> NoResult]
    /\ raised = [r \in runs |-> "none"]
    /\ classification = [r \in runs |-> NoClass]
    /\ researcher_calls = [r \in runs |-> 0]
    /\ verifier_calls = [r \in runs |-> 0]
    /\ all_unsupported = [r \in runs |-> TRUE]
    /\ stage_args = [r \in runs |-> NoArgs]

(***************************************************************************)
(* DOCUMENT STORE: data                                                    *)
(***************************************************************************)

\* A file is a name (stem, extension) and its bytes.  The bytes are modelled
\* as the sequence of chunk-sized pieces of text they hold (for a PDF: one
\* piece per page).
File(stem, ext, content) == [name |-> <<stem, ext>>, content |-> content]

\* The files a batch is drawn from: a text file and a copy of it under
\* another name, a two-page PDF sharing a piece with them, and a file of an
\* unsupported type.
FileSet ==
    {File("a", ".txt", <<"x">>),
     File("d", ".txt", <<"x">>),
     File("b", ".pdf", <<"y", "x">>),
     File("c", ".docx", <<"y", "y">>)}
Contents == {f.content : f \in FileSet}

\* The batch_size arguments tried: from one chunk per batch up to the most
\* chunks a file has, from which on all of a file's chunks are one batch.
BatchSizes ==
    1..(CHOOSE n \in {Len(c) : c \in Contents} : \A c \in Contents : Len(c) <= n)
\* A batch lists up to MaxFiles distinct files.
Batches ==
    {fs \in UNION {[1..n -> FileSet] : n \in 1..MaxFiles} :
        \A i, j \in 1..Len(fs) : i # j => fs[i] # fs[j]}

\* os.path.getsize
getsize(file) == Len(file.content)

RECURSIVE SumSizes(_)
SumSizes(fs) == IF fs = <<>> THEN 0 ELSE getsize(Head(fs)) + SumSizes(Tail(fs))

\* _generate_hash: SHA-256, taken as collision free.
generate_hash(content) == <<"sha256", content>>

Document(text, source, page) ==
    [page_content |-> text, source |-> source, page |-> page,
     embedding |-> <<>>]

RECURSIVE Flatten(_)
Flatten(ss) == IF ss = <<>> THEN <<>> ELSE Head(ss) \o Flatten(Tail(ss))

\* _process_file: one Document per PDF page with text, one Document for a
\* text file, nothing for any other extension.  page_content is the sequence
\* of pieces of the text; page 0 stands for "no page key".
process_file(file) ==
    IF file.name[2] = ".pdf"
    THEN SelectSeq([i \in 1..Len(file.content) |->
                       Document(<<file.content[i]>>, file.name, i)],
                   LAMBDA d : d.page_content # <<>>)
    ELSE IF file.name[2] \in {".txt", ".md"}
    THEN <<Document(file.content, file.name, 0)>>
    ELSE <<>>

\* _split_documents: every document is cut into its pieces, each chunk
\* carrying the document's metadata.
split_documents(documents) ==
    Flatten([d \in 1..Len(documents) |->
                [k \in 1..Len(documents[d].page_content) |->
                    [documents[d] EXCEPT
                        !.page_content = documents[d].page_content[k]]]])

\* embed_documents of the embedding backend.
embed_documents(texts) == [i \in 1..Len(texts) |-> <<"vec", texts[i]>>]

Min(a, b) == IF a < b THEN a ELSE b

\* _embed_chunks_in_batches: batch after batch, the embedding is attached to
\* each chunk's metadata.
RECURSIVE embed_chunks_in_batches(_, _, _)
embed_chunks_in_batches(chunks, size, configured) ==
    IF ~configured THEN chunks
    ELSE IF chunks = <<>> THEN <<>>
    ELSE LET n == Min(size, Len(chunks))
             batch == SubSeq(chunks, 1, n)
             vecs == embed_documents([i \in 1..n |-> batch[i].page_content])
             embedded == [i \in 1..n |-> [batch[i] EXCEPT !.embedding = vecs[i]]]
         IN embedded \o embed_chunks_in_batches(
                            SubSeq(chunks, n + 1, Len(chunks)), size, configured)

\* The cache directory: one pickle file per (file hash, kind).
CachePaths ==
    {<<generate_hash(c), kind>> : c \in Contents, kind \in {"chunks", "embeddings"}}

Missing == [exists |-> FALSE, mtime |-> 0, timestamp |-> 0, loadable |-> FALSE,
            chunks |-> <<>>]

\* Variant: the pickle keeps the text of a chunk and drops its metadata.
pickle_dump_content_only(data) ==
    [i \in 1..Len(data) |-> <<data[i].page_content, <<>>, 0, <<>>>>]

\* pickle.dump of a chunk list: a copy of every chunk, made when it is
\* called, as the tuple of the chunk's text and its metadata values.
pickle_dump(data) ==
    [i \in 1..Len(data) |->
        <<data[i].page_content, data[i].source, data[i].page,
          data[i].embedding>>]

\* pickle.load of such a list.
pickle_load(pickled) ==
    [i \in 1..Len(pickled) |->
        [page_content |-> pickled[i][1], source |-> pickled[i][2],
         page |-> pickled[i][3], embedding |-> pickled[i][4]]]

\* _save_to_cache: the pickle of {timestamp, chunks}, written now.
save_to_cache(dir, data, path, t) ==
    [dir EXCEPT ![path] = [exists |-> TRUE, mtime |-> t, timestamp |-> t,
                           loadable |-> TRUE, chunks |-> pickle_dump(data)]]

\* _save_to_cache failing after open(): the file is left truncated.
save_to_cache_failed(dir, path, t) ==
    [dir EXCEPT ![path] = [exists |-> TRUE, mtime |-> t, timestamp |-> 0,
                           loadable |-> FALSE, chunks |-> <<>>]]

\* _load_from_cache
load_from_cache(dir, path) == pickle_load(dir[path].chunks)

\* Variant: an entry exactly CACHE_EXPIRE_DAYS old still counts as valid.
is_cache_valid_inclusive(dir, path, t) ==
    IF ~dir[path].exists THEN FALSE
    ELSE t - dir[path].mtime <= CACHE_EXPIRE_DAYS

\* _is_cache_valid
is_cache_valid(dir, path, t) ==
    IF ~dir[path].exists THEN FALSE
    ELSE t - dir[path].mtime < CACHE_EXPIRE_DAYS

\* The DEDUPLICATE block of process: chunks whose hash is not yet seen, and
\* the seen set after it.
RECURSIVE deduplicate(_, _)
deduplicate(chunks, seen) ==
    IF chunks = <<>> THEN [unique |-> <<>>, seen |-> seen]
    ELSE LET chunk_hash == generate_hash(Head(chunks).page_content)
         IN IF chunk_hash \notin seen
            THEN LET rest == deduplicate(Tail(chunks), seen \cup {chunk_hash})
                 IN [unique |-> <<Head(chunks)>> \o rest.unique,
                     seen |-> rest.seen]
            ELSE deduplicate(Tail(chunks), seen)

\* The points of the loop body at which a call may raise.
FailPoints == {"none", "read", "extract", "save_chunks", "embed",
               "save_embeddings"}

\* The body of the `for file in files` loop of process, for one file: the
\* cache directory and seen set it leaves, the chunks it hands to
\* all_chunks.extend, and how it ended.  `fail` is the call that raises.
loop_body(file, dir, seen, t, size, configured, fail) ==
    LET file_hash == generate_hash(file.content)
        chunk_cache_path == <<file_hash, "chunks">>
        embed_cache_path == <<file_hash, "embeddings">>
        Failed(d, sn) == [dir |-> d, seen |-> sn, chunks |-> <<>>,
                          status |-> "failed"]
        \* DEDUPLICATE and EMBEDDINGS, from the chunks of the file
        Rest(chunks, d) ==
            LET dd == deduplicate(chunks, seen)
            IN IF ~configured
               THEN [dir |-> d, seen |-> dd.seen, chunks |-> dd.unique,
                     status |-> "ok"]
               ELSE IF is_cache_valid(d, embed_cache_path, t)
               THEN IF ~d[embed_cache_path].loadable
                    THEN Failed(d, dd.seen)
                    ELSE [dir |-> d, seen |-> dd.seen,
                          chunks |-> load_from_cache(d, embed_cache_path),
                          status |-> "ok"]
               ELSE IF fail = "embed"
               THEN Failed(d, dd.seen)
               ELSE LET embedded ==
                            embed_chunks_in_batches(dd.unique, size, configured)
                    IN IF fail = "save_embeddings"
                       THEN Failed(save_to_cache_failed(d, embed_cache_path, t),
                                   dd.seen)
                       ELSE [dir |-> save_to_cache(d, embedded,
                                                   embed_cache_path, t),
                             seen |-> dd.seen, chunks |-> embedded,
                             status |-> "ok"]
    IN IF fail = "read"
       THEN Failed(dir, seen)
       ELSE IF is_cache_valid(dir, chunk_cache_path, t)
       THEN IF ~dir[chunk_cache_path].loadable
            THEN Failed(dir, seen)
            ELSE Rest(load_from_cache(dir, chunk_cache_path), dir)
       ELSE IF fail = "extract"
       THEN Failed(dir, seen)
       ELSE LET chunks == split_documents(process_file(file))
            IN IF chunks = <<>>
               THEN [dir |-> dir, seen |-> seen, chunks |-> <<>>,
                     status |-> "skipped"]
               ELSE IF fail = "save_chunks"
               THEN Failed(save_to_cache_failed(dir, chunk_cache_path, t), seen)
               ELSE Rest(chunks, save_to_cache(dir, chunks, chunk_cache_path, t))

(***************************************************************************)
(* DOCUMENT STORE: process                                                 *)
(***************************************************************************)

\* Variant: every file is held against the ceiling on its own.
validate_files_each(fs) == \A i \in 1..Len(fs) : getsize(fs[i]) <= MAX_TOTAL_SIZE

\* validate_files: TRUE when it returns, FALSE when it raises ValueError.
validate_files(fs) == SumSizes(fs) <= MAX_TOTAL_SIZE

\* process is called; validate_files raises or the loop is entered.  The
\* arguments batch_size and max_chunks are drawn where the code reads them.
process(fs) ==
    /\ ppc \in {"idle", "returned", "size_error"}
    /\ calls < MaxCalls
    /\ calls' = calls + 1
    /\ files' = fs
    /\ idx' = 1
    /\ all_chunks' = <<>>
    /\ seen_hashes' = {}
    /\ outcomes' = <<>>
    /\ returned_chunks' = <<>>
    /\ ppc' = IF validate_files(fs) THEN "loop" ELSE "size_error"
    /\ UNCHANGED <<embeddings, cache_dir, now, max_chunks>>

\* Variant: the error of a file is not caught and ends the call.
ProcessFile_abort(fail, batch_size) ==
    /\ ppc = "loop"
    /\ idx <= Len(files)
    /\ \E out \in {loop_body(files[idx], cache_dir, seen_hashes, now,
                              batch_size, embeddings, fail)} :
          /\ cache_dir' = out.dir
          /\ seen_hashes' = out.seen
          /\ all_chunks' = all_chunks \o out.chunks
          /\ outcomes' = Append(outcomes, out.status)
          /\ ppc' = IF out.status = "failed" THEN "raised" ELSE ppc
    /\ idx' = idx + 1
    /\ UNCHANGED <<embeddings, now, calls, files, max_chunks,
                   returned_chunks>>

\* One iteration of the loop over files; an error is logged and the loop
\* goes on.
ProcessFile(fail, batch_size) ==
    /\ ppc = "loop"
    /\ idx <= Len(files)
    /\ \E out \in {loop_body(files[idx], cache_dir, seen_hashes, now,
                              batch_size, embeddings, fail)} :
          /\ cache_dir' = out.dir
          /\ seen_hashes' = out.seen
          /\ all_chunks' = all_chunks \o out.chunks
          /\ outcomes' = Append(outcomes, out.status)
    /\ idx' = idx + 1
    /\ UNCHANGED <<embeddings, now, calls, ppc, files, max_chunks,
                   returned_chunks>>

\* Variant: the cut keeps the most recent chunks.
truncate_last(chunks, mc) ==
    IF Len(chunks) > mc
    THEN SubSeq(chunks, Len(chunks) - mc + 1, Len(chunks))
    ELSE chunks

\* The max_chunks cut applied after the loop.
truncate(chunks, mc) ==
    IF Len(chunks) > mc THEN SubSeq(chunks, 1, mc) ELSE chunks

\* After the loop: truncate and return; the locals of the call are gone.
Return(mc) ==
    /\ ppc = "loop"
    /\ idx > Len(files)
    /\ max_chunks' = mc
    /\ returned_chunks' = truncate(all_chunks, mc)
    /\ ppc' = "returned"
    /\ files' = <<>>
    /\ idx' = 1
    /\ all_chunks' = <<>>
    /\ seen_hashes' = {}
    /\ outcomes' = <<>>
    /\ UNCHANGED <<embeddings, cache_dir, now, calls>>

\* A day passes.
Tick ==
    /\ now < MaxTime
    /\ now' = now + 1
    /\ UNCHANGED <<embeddings, cache_dir, calls, ppc, files, max_chunks, idx,
                   all_chunks, seen_hashes, outcomes, returned_chunks>>

\* The document store before any process call, with nothing in the cache.
DpInit(configured) ==
    /\ embeddings \in configured
    /\ cache_dir = [p \in CachePaths |-> Missing]
    /\ now = 0
    /\ calls = 0
    /\ ppc = "idle"
    /\ files = <<>>
    /\ max_chunks = 1
    /\ idx = 1
    /\ all_chunks = <<>>
    /\ seen_hashes = {}
    /\ outcomes = <<>>
    /\ returned_chunks = <<>>

(***************************************************************************)
(* HYBRID INDEX: data                                                      *)
(***************************************************************************)

\* The chunk lists handed to build_hybrid_retriever: three files' chunks, a
\* file and its copy (two chunks with the same text), a list sharing chunks
\* with both, and a single chunk.
ChunkLists ==
    LET cx == Document("x", <<"a", ".txt">>, 0)
        cd == Document("x", <<"d", ".txt">>, 0)
        cy == Document("y", <<"b", ".pdf">>, 1)
        cz == Document("z", <<"e", ".md">>, 0)
    IN {<<cx, cy, cz>>, <<cx, cd>>, <<cz, cd, cy>>, <<cy>>}

Queries == {"q1", "q2"}

NoRetriever == [retrievers |-> <<>>]

\* How well a text matches a query: for the vector retriever the cosine
\* similarity of the embeddings, for BM25 the lexical score.  Both depend on
\* the query and the text alone.
score(kind, query, text) ==
    IF kind = "vector"
    THEN IF query = "q1" THEN CASE text = "x" -> 3 [] text = "y" -> 2
                                [] OTHER -> 1
         ELSE CASE text = "z" -> 3 [] text = "y" -> 2 [] OTHER -> 1
    ELSE IF query = "q1" THEN CASE text = "y" -> 3 [] text = "x" -> 2
                                [] OTHER -> 1
         ELSE CASE text = "x" -> 3 [] text = "z" -> 2 [] OTHER -> 0

\* The k best matches among docs, best first; equal scores in the order
\* they have in docs.
RECURSIVE top_k(_, _, _, _)
top_k(kind, query, docs, k) ==
    IF k = 0 \/ docs = <<>> THEN <<>>
    ELSE LET best == CHOOSE i \in 1..Len(docs) :
                        \A j \in 1..Len(docs) :
                            LET si == score(kind, query, docs[i].page_content)
                                sj == score(kind, query, docs[j].page_content)
                            IN sj < si \/ (sj = si /\ i <= j)
             rest == SubSeq(docs, 1, best - 1)
                        \o SubSeq(docs, best + 1, Len(docs))
         IN <<docs[best]>> \o top_k(kind, query, rest, k - 1)

\* BM25Retriever.from_documents(docs): the index is the list itself.
BM25Retriever(docs) == [kind |-> "bm25", docs |-> docs, k |-> BM25_K]

\* vector_store.as_retriever(search_kwargs={"k": 10}): a handle on the
\* collection, which is read when the query is made.
as_retriever == [kind |-> "vector", docs |-> <<>>, k |-> VECTOR_K]

\* retriever.invoke(query) of a sub-retriever.
invoke(sub, query, collection) ==
    IF sub.kind = "bm25"
    THEN top_k("bm25", query, sub.docs, sub.k)
    ELSE top_k("vector", query, collection, sub.k)

\* Python hash() of a string, taken as collision free.
hash(text) == <<"hash", text>>

\* Variant: a result is dropped only when the same document, text and
\* metadata, was seen.
add_results_by_document(results, acc) ==
    LET Loop[k \in 0..Len(results)] ==
            IF k = 0 THEN acc
            ELSE LET doc == results[k]
                     doc_id == hash(<<doc.page_content, doc.source, doc.page>>)
                 IN IF doc_id \notin Loop[k - 1].seen
                    THEN [docs |-> Append(Loop[k - 1].docs, doc),
                          seen |-> Loop[k - 1].seen \cup {doc_id}]
                    ELSE Loop[k - 1]
    IN Loop[Len(results)]

\* The inner loop of _get_relevant_documents over the results of one
\* sub-retriever; acc is the pair of locals docs and seen.
RECURSIVE add_results(_, _)
add_results(results, acc) ==
    IF results = <<>> THEN acc
    ELSE LET doc == Head(results)
             doc_id == hash(doc.page_content)
         IN IF doc_id \notin acc.seen
            THEN add_results(Tail(results),
                             [docs |-> Append(acc.docs, doc),
                              seen |-> acc.seen \cup {doc_id}])
            ELSE add_results(Tail(results), acc)

\* Variant: the sub-retrievers are asked last to first.
over_retrievers_reversed(retrievers, query, collection, acc) ==
    LET n == Len(retrievers)
        Loop[k \in 0..n] ==
            IF k = 0 THEN acc
            ELSE add_results(invoke(retrievers[n + 1 - k], query, collection),
                             Loop[k - 1])
    IN Loop[n]

\* The outer loop of _get_relevant_documents over self.retrievers.
RECURSIVE over_retrievers(_, _, _, _)
over_retrievers(retrievers, query, collection, acc) ==
    IF retrievers = <<>> THEN acc
    ELSE over_retrievers(Tail(retrievers), query, collection,
                         add_results(invoke(Head(retrievers), query,
                                            collection), acc))

\* HybridRetriever._get_relevant_documents
get_relevant_documents(hybrid, query, collection) ==
    over_retrievers(hybrid.retrievers, query, collection,
                    [docs |-> <<>>, seen |-> {}]).docs

(***************************************************************************)
(* HYBRID INDEX: build and query                                           *)
(***************************************************************************)

\* The calls of build_hybrid_retriever that may raise.
BuildFailPoints == {"none", "vector_store", "add_documents", "bm25"}

\* Variant: when BM25Retriever.from_documents raises, a retriever over the
\* vector store alone is returned.
build_hybrid_retriever_degraded(docs, fail, written) ==
    /\ builds < MaxBuilds
    /\ builds' = builds + 1
    /\ sub_results' = <<>>
    /\ fused' = <<>>
    /\ IF fail = "vector_store"
       THEN /\ written = 0
            /\ build_status' = "raised"
            /\ UNCHANGED <<qdrant, retriever>>
       ELSE IF fail = "add_documents"
       THEN /\ written < Len(docs)
            /\ qdrant' = qdrant \o SubSeq(docs, 1, written)
            /\ build_status' = "raised"
            /\ UNCHANGED retriever
       ELSE /\ written = Len(docs)
            /\ qdrant' = qdrant \o docs
            /\ retriever' = [retrievers |->
                                IF fail = "bm25" THEN <<as_retriever>>
                                ELSE <<BM25Retriever(docs), as_retriever>>]
            /\ build_status' = "returned"

\* build_hybrid_retriever(docs).  `fail` is the call that raises and
\* `written` the number of points add_documents has uploaded; the exception
\* is logged and raised again.
build_hybrid_retriever(docs, fail, written) ==
    /\ builds < MaxBuilds
    /\ builds' = builds + 1
    /\ sub_results' = <<>>
    /\ fused' = <<>>
    /\ IF fail = "vector_store"
       THEN /\ written = 0
            /\ build_status' = "raised"
            /\ UNCHANGED <<qdrant, retriever>>
       ELSE IF fail = "add_documents"
       THEN /\ written < Len(docs)
            /\ qdrant' = qdrant \o SubSeq(docs, 1, written)
            /\ build_status' = "raised"
            /\ UNCHANGED retriever
       ELSE IF fail = "bm25"
       THEN /\ written = Len(docs)
            /\ qdrant' = qdrant \o docs
            /\ build_status' = "raised"
            /\ UNCHANGED retriever
       ELSE /\ written = Len(docs)
            /\ qdrant' = qdrant \o docs
            /\ retriever' = [retrievers |-> <<BM25Retriever(docs),
                                               as_retriever>>]
            /\ build_status' = "returned"

\* A query to the retriever of the last successful build.
Query(query) ==
    /\ retriever # NoRetriever
    /\ sub_results' = [i \in 1..Len(retriever.retrievers) |->
                          invoke(retriever.retrievers[i], query, qdrant)]
    /\ fused' = get_relevant_documents(retriever, query, qdrant)
    /\ UNCHANGED <<qdrant, retriever, build_status, builds>>

\* A RetrieverBuilder after __init__: _ensure_collection has found or
\* created the collection, which holds no point yet.
RbInit ==
    /\ qdrant = <<>>
    /\ retriever = NoRetriever
    /\ build_status = "none"
    /\ builds = 0
    /\ sub_results = <<>>
    /\ fused = <<>>

(***************************************************************************)
(* UI SESSION: upload and submit                                           *)
(***************************************************************************)

\* session_state.retriever before the first build.
None == [build |-> 0]
NoCall == [called |-> FALSE]

\* _get_file_hashes: the set of the SHA-256 hashes of the files that can be
\* read; `unreadable` holds the positions of the files whose open raises.
get_file_hashes(uploaded_files, unreadable) ==
    {generate_hash(uploaded_files[i].content) :
        i \in (1..Len(uploaded_files)) \ unreadable}

\* How the calls a submit makes may end.
SubmitOutcomes == {"ok", "process_raises", "build_raises", "pipeline_raises"}

\* The file uploader (or Load Example) has stored a non-empty list of files.
Upload(fs) ==
    /\ session' = [session EXCEPT !.uploaded_files = fs]
    /\ UNCHANGED <<built_from, pipeline_call, submits>>

\* Variant: file_hashes is stored before the documents are processed.
Submit_hashes_first(unreadable, outcome) ==
    /\ submits < MaxSubmits
    /\ session.uploaded_files # <<>>
    /\ submits' = submits + 1
    /\ LET current_hashes ==
               get_file_hashes(session.uploaded_files, unreadable)
           rebuild == session.retriever = None
                      \/ current_hashes # session.file_hashes
           built == [build |-> submits']
       IN IF rebuild /\ outcome \in {"process_raises", "build_raises"}
          THEN /\ session' = [session EXCEPT !.file_hashes = current_hashes]
               /\ pipeline_call' = NoCall
               /\ UNCHANGED built_from
          ELSE /\ session' = IF rebuild
                             THEN [session EXCEPT
                                      !.file_hashes = current_hashes,
                                      !.retriever = built]
                             ELSE session
               /\ built_from' = IF rebuild THEN current_hashes ELSE built_from
               /\ pipeline_call' =
                     [called |-> TRUE,
                      retriever |-> session'.retriever,
                      built_from |-> built_from',
                      current_hashes |-> current_hashes,
                      returned |-> outcome = "ok"]

\* A click on Submit with a question and uploaded files: the whole handler.
\* `outcome` is the call that raises, if one does; the retriever a build
\* returns is named after the submit that built it.
Submit(unreadable, outcome) ==
    /\ submits < MaxSubmits
    /\ session.uploaded_files # <<>>
    /\ submits' = submits + 1
    /\ LET current_hashes ==
               get_file_hashes(session.uploaded_files, unreadable)
           rebuild == session.retriever = None
                      \/ current_hashes # session.file_hashes
           built == [build |-> submits']
       IN IF rebuild /\ outcome \in {"process_raises", "build_raises"}
          THEN /\ pipeline_call' = NoCall
               /\ UNCHANGED <<session, built_from>>
          ELSE /\ session' = IF rebuild
                             THEN [session EXCEPT
                                      !.file_hashes = current_hashes,
                                      !.retriever = built]
                             ELSE session
               /\ built_from' = IF rebuild THEN current_hashes ELSE built_from
               /\ pipeline_call' =
                     [called |-> TRUE,
                      retriever |-> session'.retriever,
                      built_from |-> built_from',
                      current_hashes |-> current_hashes,
                      returned |-> outcome = "ok"]

\* st.session_state as main initialises it.
AppInit ==
    /\ session = [uploaded_files |-> <<>>, file_hashes |-> {},
                  retriever |-> None]
    /\ built_from = {}
    /\ pipeline_call = NoCall
    /\ submits = 0

(***************************************************************************)
(* CONCURRENT process INVOCATIONS: the loop body, statement by statement   *)
(***************************************************************************)

Workers == {1, 2}

Idle == [pc |-> "idle", file |-> File("", "", <<>>), chunks |-> <<>>]

\* The chunk cache file of the file an invocation is at.
chunk_cache_path(w) == <<generate_hash(workers[w].file.content), "chunks">>

\* Variant: the pickle is written to a file of its own and moved over the
\* cache file when complete, so that open leaves the cache file alone.
open_wb_aside(dir, path, t) == dir

\* open(path, "wb") in _save_to_cache: the file is created or emptied.
open_wb(dir, path, t) ==
    [dir EXCEPT ![path] = [exists |-> TRUE, mtime |-> t, timestamp |-> 0,
                           loadable |-> FALSE, chunks |-> <<>>]]

\* The cache directory is the only thing a step of an invocation shares.
RaceFrame ==
    UNCHANGED <<embeddings, now, calls, ppc, files, max_chunks, idx,
                all_chunks, seen_hashes, outcomes, returned_chunks>>

\* An invocation comes to a file of its batch, the first or the one after
\* a file it is through with, and hashes it.
Begin(w, file) ==
    /\ workers[w].pc \in {"idle", "done", "skipped", "failed"}
    /\ workers' = [workers EXCEPT ![w] = [pc |-> "check", file |-> file,
                                          chunks |-> <<>>]]
    /\ UNCHANGED cache_dir
    /\ RaceFrame

\* if self._is_cache_valid(chunk_cache_path)
CheckCache(w) ==
    /\ workers[w].pc = "check"
    /\ workers' = [workers EXCEPT ![w].pc =
                      IF is_cache_valid(cache_dir, chunk_cache_path(w), now)
                      THEN "load" ELSE "extract"]
    /\ UNCHANGED cache_dir
    /\ RaceFrame

\* chunks = self._load_from_cache(chunk_cache_path); pickle.load raises on
\* a file that holds no complete pickle, and the file is given up.
LoadCache(w) ==
    /\ workers[w].pc = "load"
    /\ workers' = [workers EXCEPT ![w] =
                      IF cache_dir[chunk_cache_path(w)].loadable
                      THEN [@ EXCEPT !.pc = "done",
                                     !.chunks = load_from_cache(
                                                    cache_dir,
                                                    chunk_cache_path(w))]
                      ELSE [@ EXCEPT !.pc = "failed"]]
    /\ UNCHANGED cache_dir
    /\ RaceFrame

\* _process_file and _split_documents; a file without chunks is skipped.
Extract(w) ==
    /\ workers[w].pc = "extract"
    /\ LET chunks == split_documents(process_file(workers[w].file))
       IN workers' = [workers EXCEPT ![w].chunks = chunks,
                                     ![w].pc = IF chunks = <<>> THEN "skipped"
                                               ELSE "open"]
    /\ UNCHANGED cache_dir
    /\ RaceFrame

\* _save_to_cache, first statement: the file is opened for writing.
OpenCache(w) ==
    /\ workers[w].pc = "open"
    /\ cache_dir' = open_wb(cache_dir, chunk_cache_path(w), now)
    /\ workers' = [workers EXCEPT ![w].pc = "dump"]
    /\ RaceFrame

\* _save_to_cache, second statement: the pickle is written and the file
\* closed.
DumpCache(w) ==
    /\ workers[w].pc = "dump"
    /\ cache_dir' = save_to_cache(cache_dir, workers[w].chunks,
                                  chunk_cache_path(w), now)
    /\ workers' = [workers EXCEPT ![w].pc = "done"]
    /\ RaceFrame

RaceInit == workers = [w \in Workers |-> Idle]

(***************************************************************************)
(* SPECIFICATIONS                                                          *)
(***************************************************************************)

\* One run of full_pipeline.
Init == WfInit({1}) /\ DpInit({FALSE}) /\ RbInit /\ AppInit /\ RaceInit

Next ==
    /\ UNCHANGED <<dpVars, rbVars, appVars, raceVars>>
    /\ \E r \in Runs :
        \/ full_pipeline(r)
        \/ CheckRelevance(r)
        \/ Research(r)
        \/ Verify(r)

Spec == Init /\ [][Next]_vars

\* A DocumentProcessor serving process calls one after the other.
InitProcess ==
    WfInit({}) /\ DpInit(BOOLEAN) /\ RbInit /\ AppInit /\ RaceInit

NextProcess ==
    /\ UNCHANGED <<wfVars, rbVars, appVars, raceVars>>
    /\ \/ \E fs \in Batches : process(fs)
       \/ \E fail \in FailPoints, bs \in BatchSizes : ProcessFile(fail, bs)
       \/ \E mc \in 1..MaxChunks : Return(mc)
       \/ Tick

SpecProcess == InitProcess /\ [][NextProcess]_vars

\* Two full_pipeline invocations on one AgentWorkflow, their stages
\* interleaved in any order.
InitConcurrent ==
    WfInit({1, 2}) /\ DpInit({FALSE}) /\ RbInit /\ AppInit /\ RaceInit

SpecConcurrent == InitConcurrent /\ [][Next]_vars

\* A RetrieverBuilder serving builds, and queries to the retriever of the
\* last successful build.
InitBuilder ==
    WfInit({}) /\ DpInit({FALSE}) /\ RbInit /\ AppInit /\ RaceInit

NextBuilder ==
    /\ UNCHANGED <<wfVars, dpVars, appVars, raceVars>>
    /\ \/ \E docs \in ChunkLists, fail \in BuildFailPoints :
             \E written \in 0..Len(docs) :
                 build_hybrid_retriever(docs, fail, written)
       \/ \E query \in Queries : Query(query)

SpecBuilder == InitBuilder /\ [][NextBuilder]_vars

\* One UI session: uploads and clicks on Submit.
InitApp == WfInit({}) /\ DpInit({FALSE}) /\ RbInit /\ AppInit /\ RaceInit

NextApp ==
    /\ UNCHANGED <<wfVars, dpVars, rbVars, raceVars>>
    /\ \/ \E fs \in Batches : Upload(fs)
       \/ \E unreadable \in SUBSET (1..MaxFiles), outcome \in SubmitOutcomes :
             Submit(unreadable, outcome)

SpecApp == InitApp /\ [][NextApp]_vars

\* Two process invocations running side by side on one cache directory,
\* within a day and with nothing that serialises them.
InitRace == WfInit({}) /\ DpInit({FALSE}) /\ RbInit /\ AppInit /\ RaceInit

NextRace ==
    /\ UNCHANGED <<wfVars, rbVars, appVars>>
    /\ \E w \in Workers :
          \/ \E file \in FileSet : Begin(w, file)
          \/ CheckCache(w)
          \/ LoadCache(w)
          \/ Extract(w)
          \/ OpenCache(w)
          \/ DumpCache(w)

SpecRace == InitRace /\ [][NextRace]_vars

(***************************************************************************)
(* PROPERTIES OF THE AGENT WORKFLOW                                        *)
(***************************************************************************)

Relevant == {"CAN_ANSWER", "PARTIAL"}

\* The report holds none of the four decision markers.
Unparsed(report) == \A m \in Markers : ~Contains(report, m)

\* The step is the verify node of run r completing without an error.
VerifyDone(r) == pc[r] = "verify" /\ pc'[r] # "verify" /\ raised'[r] = "none"

\* C1: with a Verifier that answers "Supported: NO" on every call, the run
\* has returned the last draft once RetryCap Research->Verify cycles are over.
C1_BoundedRetry ==
    \A r \in Runs :
        (all_unsupported[r] /\ verifier_calls[r] >= RetryCap /\ raised[r] = "none")
            => /\ pc[r] = "returned"
               /\ verifier_calls[r] = RetryCap
               /\ result[r].draft_answer = state[r].draft_answer

\* C2: the gate's answer is outside {CAN_ANSWER, PARTIAL} exactly when the
\* run goes from check_relevance straight to the end with is_relevant false,
\* the fixed message as draft, an empty report and no Draft Generator or
\* Verifier call; otherwise is_relevant is true and research is entered.
C2_GateState ==
    \A r \in Runs :
        classification[r] # NoClass =>
            IF classification[r] \notin Relevant
            THEN /\ pc[r] = "returned"
                 /\ ~state[r].is_relevant
                 /\ result[r].draft_answer = NOT_RELEVANT
                 /\ result[r].verification_report = <<>>
                 /\ researcher_calls[r] = 0
                 /\ verifier_calls[r] = 0
            ELSE /\ state[r].is_relevant
                 /\ pc[r] \in {"research", "verify", "returned", "raised"}
                 /\ researcher_calls[r] = 0 => pc[r] = "research"

C2_GateStep ==
    \A r \in Runs :
        (pc[r] = "check_relevance" /\ pc'[r] # "check_relevance"
                                   /\ raised'[r] = "none")
            => /\ classification'[r] \in Relevant <=> pc'[r] = "research"
               /\ classification'[r] \notin Relevant <=> pc'[r] = "returned"

C2_RelevanceGate == []C2_GateState /\ [][C2_GateStep]_vars

C2_Witness ==
    \E r \in Runs :
        /\ classification[r] = "OFF_TOPIC"
        /\ pc[r] = "returned"
        /\ result[r].draft_answer = NOT_RELEVANT

\* C3: every completed verify step leads back to research when the report
\* holds "Supported: NO" or "Relevant: NO", and to the end in every other
\* case.
C3_VerifyDecision ==
    [][\A r \in Runs :
          VerifyDone(r) =>
              LET report == state'[r].verification_report
                  failed == Contains(report, SupportedNo)
                            \/ Contains(report, RelevantNo)
              IN /\ failed => pc'[r] = "research"
                 /\ ~failed => pc'[r] = "returned"]_vars

C3_Witness ==
    \E r \in Runs :
        /\ pc[r] = "research"
        /\ verifier_calls[r] = 1
        /\ Contains(state[r].verification_report, RelevantNo)
        /\ ~Contains(state[r].verification_report, SupportedNo)

\* C4 as stated: gate CAN_ANSWER and a first report holding "Supported: YES"
\* end the run after exactly one cycle, whatever else the report holds.
C4_OneCycleAnyReport ==
    \A r \in Runs :
        (/\ classification[r] = "CAN_ANSWER"
         /\ verifier_calls[r] = 1
         /\ Contains(state[r].verification_report, SupportedYes))
            => pc[r] = "returned" /\ researcher_calls[r] = 1

\* C4 amended: gate CAN_ANSWER and a first report holding "Supported: YES"
\* and neither "Supported: NO" nor "Relevant: NO" end the run after exactly
\* one cycle: one Draft Generator call, one Verifier call.
C4_OneCycle ==
    \A r \in Runs :
        (/\ classification[r] = "CAN_ANSWER"
         /\ verifier_calls[r] = 1
         /\ Contains(state[r].verification_report, SupportedYes)
         /\ ~Contains(state[r].verification_report, SupportedNo)
         /\ ~Contains(state[r].verification_report, RelevantNo))
            => /\ pc[r] = "returned"
               /\ researcher_calls[r] = 1
               /\ result[r].verification_report = state[r].verification_report

C4_Witness ==
    \E r \in Runs :
        /\ classification[r] = "CAN_ANSWER"
        /\ verifier_calls[r] = 1
        /\ state[r].verification_report = <<"Supported:", "YES", "NO">>
        /\ pc[r] = "returned"

\* C5: a verify step whose report holds none of the decision markers ends
\* the run, and full_pipeline returns the draft as it was with that report.
C5_UnparsedPassThrough ==
    [][\A r \in Runs :
          (VerifyDone(r) /\ Unparsed(state'[r].verification_report))
              => /\ pc'[r] = "returned"
                 /\ result'[r] = [returned |-> TRUE,
                                  draft_answer |-> state[r].draft_answer,
                                  verification_report |->
                                      state'[r].verification_report]]_vars

C5_Witness ==
    \E r \in Runs :
        /\ pc[r] = "returned"
        /\ verifier_calls[r] = 1
        /\ result[r].verification_report = <<"YES", "NO", "Relevant:">>
        /\ result[r].draft_answer \in Drafts

\* C6: once a stage has raised, full_pipeline has raised too, it has
\* returned no result, and no stage is invoked afterwards.
C6_ErrorState ==
    \A r \in Runs :
        raised[r] # "none" => pc[r] = "raised" /\ result[r] = NoResult

C6_ErrorStep ==
    \A r \in Runs :
        raised[r] # "none"
            => UNCHANGED <<raised[r], researcher_calls[r], verifier_calls[r],
                           classification[r], state[r]>>

C6_StageErrorAborts == []C6_ErrorState /\ [][C6_ErrorStep]_vars

C6_Witness ==
    \E r \in Runs :
        /\ raised[r] = "verifier"
        /\ pc[r] = "raised"
        /\ researcher_calls[r] = 2
        /\ verifier_calls[r] = 2

(***************************************************************************)
(* PROPERTIES OF THE DOCUMENT STORE                                        *)
(***************************************************************************)

IsPrefix(s, t) == Len(s) <= Len(t) /\ SubSeq(t, 1, Len(s)) = s

\* s can be obtained from t by dropping elements.
RECURSIVE IsSubseq(_, _)
IsSubseq(s, t) ==
    IF s = <<>> THEN TRUE
    ELSE IF t = <<>> THEN FALSE
    ELSE IF Head(s) = Head(t) THEN IsSubseq(Tail(s), Tail(t))
    ELSE IsSubseq(s, Tail(t))

PageContents(chunks) == [i \in 1..Len(chunks) |-> chunks[i].page_content]

Fingerprints(chunks) ==
    [i \in 1..Len(chunks) |-> generate_hash(chunks[i].page_content)]

NoDuplicates(seq) ==
    \A i, j \in 1..Len(seq) : i # j => seq[i] # seq[j]

\* The step is one iteration of the loop of process.
LoopStep == ppc = "loop" /\ idx' = idx + 1

\* C7: a batch whose total size exceeds MAX_TOTAL_SIZE makes process raise
\* the size error before the loop over the files is entered: no file is
\* opened, no chunk is produced and the cache directory is left as it was.
C7_SizeState ==
    ppc \in {"loop", "size_error"} =>
        /\ SumSizes(files) > MAX_TOTAL_SIZE <=> ppc = "size_error"
        /\ ppc = "size_error" =>
              /\ idx = 1
              /\ outcomes = <<>>
              /\ seen_hashes = {}
              /\ all_chunks = <<>>
              /\ returned_chunks = <<>>

C7_SizeStep == ppc' = "size_error" => cache_dir' = cache_dir

C7_SizeCeiling == []C7_SizeState /\ [][C7_SizeStep]_vars

C7_Witness ==
    /\ ppc = "size_error"
    /\ calls = 2
    /\ \E p \in CachePaths : cache_dir[p].exists

\* C8: a file that fails inside the loop ends neither the loop nor the call:
\* the loop moves to the next file with all_chunks as it was, and process
\* returns after as many iterations as the batch has files.
C8_LoopStep ==
    LoopStep =>
        /\ ppc' = "loop"
        /\ IsPrefix(all_chunks, all_chunks')
        /\ outcomes'[idx] = "failed" => all_chunks' = all_chunks

C8_ReturnStep ==
    (ppc = "loop" /\ ppc' # "loop") =>
        /\ ppc' = "returned"
        /\ Len(outcomes) = Len(files)
        /\ IsPrefix(returned_chunks', all_chunks)

C8_Loop ==
    /\ ppc = "loop" => Len(outcomes) = idx - 1
    /\ ppc \in {"idle", "loop", "returned", "size_error"}

C8_FailureIsolation ==
    []C8_Loop /\ [][C8_LoopStep /\ C8_ReturnStep]_vars

C8_Witness ==
    /\ ppc = "loop"
    /\ idx > Len(files)
    /\ outcomes = <<"ok", "failed">>
    /\ all_chunks # <<>>

\* C9: the list process returns never holds two chunks with the same
\* content fingerprint.
C9_GlobalDedup ==
    ppc = "returned" => NoDuplicates(Fingerprints(returned_chunks))

\* C10: process returns at most max_chunks chunks, and they are the first
\* chunks of the aggregate, which grows file after file, each file adding
\* its chunks at the end in the order they have in the file.
C10_Returned == ppc = "returned" => Len(returned_chunks) <= max_chunks

C10_ReturnStep ==
    (ppc = "loop" /\ ppc' = "returned") =>
        /\ Len(returned_chunks') = Min(max_chunks', Len(all_chunks))
        /\ \A i \in 1..Len(returned_chunks') : returned_chunks'[i] = all_chunks[i]

C10_LoopStep ==
    LoopStep =>
        /\ IsPrefix(all_chunks, all_chunks')
        /\ IsSubseq(PageContents(SubSeq(all_chunks', Len(all_chunks) + 1,
                                        Len(all_chunks'))),
                    files[idx].content)

C10_MaxChunks == []C10_Returned /\ [][C10_LoopStep /\ C10_ReturnStep]_vars

C10_Witness ==
    /\ ppc = "returned"
    /\ max_chunks = 1
    /\ Len(returned_chunks) = 1
    /\ returned_chunks[1].page_content = "y"
    /\ returned_chunks[1].source = <<"b", ".pdf">>

\* The chunks the loop step has added to all_chunks.
Added == SubSeq(all_chunks', Len(all_chunks) + 1, Len(all_chunks'))

\* C11: when the file of a loop iteration has a chunk cache entry, the entry
\* is left alone and its chunks are used while now - timestamp is below
\* CACHE_EXPIRE_DAYS; from then on an iteration that succeeds uses the chunks
\* extracted and split from the file itself and rewrites the entry with the
\* timestamp now, which makes it valid again.
C11_LoopStep ==
    LoopStep =>
        LET path == <<generate_hash(files[idx].content), "chunks">>
            entry == cache_dir[path]
            fresh == split_documents(process_file(files[idx]))
            ok == outcomes'[idx] = "ok"
        IN (entry.exists /\ entry.loadable) =>
              IF now - entry.timestamp < CACHE_EXPIRE_DAYS
              THEN /\ cache_dir'[path] = entry
                   /\ (ok /\ ~embeddings) =>
                          Added = deduplicate(load_from_cache(cache_dir, path),
                                              seen_hashes).unique
              ELSE ok =>
                   /\ cache_dir'[path].loadable
                   /\ load_from_cache(cache_dir', path) = fresh
                   /\ cache_dir'[path].timestamp = now
                   /\ is_cache_valid(cache_dir', path, now)
                   /\ ~embeddings =>
                          Added = deduplicate(fresh, seen_hashes).unique

C11_CacheExpiry == [][C11_LoopStep]_vars

\* a.txt was processed, a day passed, and its copy d.txt has replaced the
\* expired entry that a.txt had left.
C11_Witness ==
    /\ ppc = "loop"
    /\ ~embeddings
    /\ files = <<File("a", ".txt", <<"x">>), File("d", ".txt", <<"x">>)>>
    /\ idx = 3
    /\ outcomes = <<"ok", "ok">>
    /\ all_chunks # <<>>
    /\ all_chunks[1].source = <<"a", ".txt">>
    /\ now = CACHE_EXPIRE_DAYS
    /\ LET path == <<generate_hash(<<"x">>), "chunks">>
       IN /\ cache_dir[path].timestamp = now
          /\ load_from_cache(cache_dir, path)[1].source = <<"d", ".txt">>

\* The chunks of a file with their embeddings attached.
Embedded(chunks) ==
    [i \in 1..Len(chunks) |->
        [chunks[i] EXCEPT !.embedding = <<"vec", chunks[i].page_content>>]]

\* C12: what _load_from_cache reads from an entry is what _save_to_cache was
\* given, chunk by chunk, text and metadata alike: a chunk entry holds the
\* chunks as they were extracted and split from a file with these bytes,
\* without the embeddings attached to them after the write, and an embedding
\* entry holds chunks of such a file with their embeddings, in file order.
C12_Entries ==
    \A c \in Contents :
        LET chunk_path == <<generate_hash(c), "chunks">>
            embed_path == <<generate_hash(c), "embeddings">>
            Computed == {split_documents(process_file(f)) :
                            f \in {g \in FileSet : g.content = c}}
        IN /\ cache_dir[chunk_path].loadable =>
                 load_from_cache(cache_dir, chunk_path) \in Computed
           /\ cache_dir[embed_path].loadable =>
                 \E chunks \in Computed :
                     IsSubseq(load_from_cache(cache_dir, embed_path),
                              Embedded(chunks))

\* An iteration that writes the chunk entry leaves in it the chunks it has
\* split from its file; an iteration that finds the entry valid reads from
\* it the chunks that are in it.
C12_LoopStep ==
    LoopStep =>
        LET path == <<generate_hash(files[idx].content), "chunks">>
        IN /\ (cache_dir'[path] # cache_dir[path] /\ cache_dir'[path].loadable)
                 => load_from_cache(cache_dir', path)
                        = split_documents(process_file(files[idx]))
           /\ (is_cache_valid(cache_dir, path, now) /\ ~embeddings
                                                   /\ outcomes'[idx] = "ok")
                 => IsSubseq(Added, load_from_cache(cache_dir, path))

C12_RoundTrip == []C12_Entries /\ [][C12_LoopStep]_vars

\* With embeddings configured, a.txt was split, written, embedded and written
\* again, and its copy d.txt was served from both entries: the chunk entry
\* holds the chunk without an embedding, the embedding entry with it.
C12_Witness ==
    /\ ppc = "loop"
    /\ embeddings
    /\ files = <<File("a", ".txt", <<"x">>), File("d", ".txt", <<"x">>)>>
    /\ idx = 3
    /\ outcomes = <<"ok", "ok">>
    /\ Len(all_chunks) = 2
    /\ all_chunks[2] = [page_content |-> "x", source |-> <<"a", ".txt">>,
                        page |-> 0, embedding |-> <<"vec", "x">>]
    /\ load_from_cache(cache_dir, <<generate_hash(<<"x">>), "chunks">>)
           = <<[page_content |-> "x", source |-> <<"a", ".txt">>,
                page |-> 0, embedding |-> <<>>]>>

\* C18: every entry of the cache holds the complete chunk list of a file
\* with the entry's fingerprint, whatever else was in the batch that wrote
\* it: the chunk entry the chunks as split, the embedding entry the same
\* chunks with their embeddings.
C18_BatchIndependent ==
    \A c \in Contents :
        LET chunk_path == <<generate_hash(c), "chunks">>
            embed_path == <<generate_hash(c), "embeddings">>
            Complete == {split_documents(process_file(f)) :
                            f \in {g \in FileSet : g.content = c}}
        IN /\ cache_dir[chunk_path].loadable =>
                 load_from_cache(cache_dir, chunk_path) \in Complete
           /\ cache_dir[embed_path].loadable =>
                 load_from_cache(cache_dir, embed_path)
                     \in {Embedded(chunks) : chunks \in Complete}

(***************************************************************************)
(* PROPERTIES OF THE HYBRID INDEX                                          *)
(***************************************************************************)

\* C13: the list a HybridRetriever query returns never holds two documents
\* with the same content fingerprint, whatever the sub-retrievers returned.
C13_FusionDedup ==
    NoDuplicates([i \in 1..Len(fused) |-> hash(fused[i].page_content)])

\* Both sub-retrievers returned a.txt's chunk and the chunk of its copy
\* d.txt, which has the same text; the query returned the first of them.
C13_Witness ==
    /\ Len(sub_results) = 2
    /\ sub_results[1] = <<Document("x", <<"a", ".txt">>, 0),
                          Document("x", <<"d", ".txt">>, 0)>>
    /\ sub_results[2] = sub_results[1]
    /\ fused = <<Document("x", <<"a", ".txt">>, 0)>>

\* The step is a build_hybrid_retriever call.
BuildStep == builds' = builds + 1

\* C14: a build that succeeds right after a successful build from the same
\* chunk list leaves every query with the answer it had before it.
C14_IdempotentBuild ==
    [][(/\ BuildStep
        /\ build_status = "returned"
        /\ build_status' = "returned"
        /\ retriever'.retrievers[1].docs = retriever.retrievers[1].docs)
          => \A query \in Queries :
                 get_relevant_documents(retriever', query, qdrant')
                     = get_relevant_documents(retriever, query, qdrant)]_vars

\* The texts of a list of documents.
TextsOf(docs) == {docs[i].page_content : i \in 1..Len(docs)}

\* The retriever is made of a BM25 index and the vector store, in this order.
Hybrid(r) ==
    /\ Len(r.retrievers) = 2
    /\ r.retrievers[1].kind = "bm25"
    /\ r.retrievers[2].kind = "vector"

\* C15: a build_hybrid_retriever call either returns a retriever made of the
\* BM25 index over the given chunks and of the vector store they were added
\* to, or raises and returns none; no retriever with a single sub-index is
\* ever returned.
C15_BuildStep ==
    BuildStep =>
        \/ /\ build_status' = "returned"
           /\ Hybrid(retriever')
           /\ \E docs \in ChunkLists :
                 /\ retriever'.retrievers[1].docs = docs
                 /\ qdrant' = qdrant \o docs
        \/ /\ build_status' = "raised"
           /\ retriever' = retriever

C15_Returned == retriever # NoRetriever => Hybrid(retriever)

C15_NoSingleMode == []C15_Returned /\ [][C15_BuildStep]_vars

\* The first build raised after points were added to the collection, and
\* no retriever was returned.
C15_Witness ==
    /\ builds = 1
    /\ build_status = "raised"
    /\ retriever = NoRetriever
    /\ Len(qdrant) = 3

\* C16: after a successful build, every document a query returns has the
\* text of a chunk of the list that build was given.
C16_CurrentChunksOnly ==
    build_status = "returned" =>
        \A query \in Queries :
            TextsOf(get_relevant_documents(retriever, query, qdrant))
                \subseteq TextsOf(retriever.retrievers[1].docs)

\* C17: a build_hybrid_retriever call that raises returns no retriever and
\* leaves every query to the retriever of the last successful build with
\* the answer it had before the call.
C17_AllOrNothing ==
    [][(BuildStep /\ build_status' = "raised") =>
          /\ retriever' = retriever
          /\ retriever # NoRetriever =>
                \A query \in Queries :
                    get_relevant_documents(retriever, query, qdrant')
                        = get_relevant_documents(retriever, query, qdrant)]_vars

\* The documents of seq whose text no earlier document of seq has.
FirstOccurrences(seq) ==
    LET keep == {i \in 1..Len(seq) :
                    \A j \in 1..(i - 1) :
                        seq[j].page_content # seq[i].page_content}
        Pick[k \in 0..Len(seq)] ==
            IF k = 0 THEN <<>>
            ELSE IF k \in keep THEN Append(Pick[k - 1], seq[k])
            ELSE Pick[k - 1]
    IN Pick[Len(seq)]

\* C19: the list a query returns is the BM25 results followed by the vector
\* results, without the documents whose text an earlier one has: the order
\* inside each sub-result is kept and each text returned by a sub-retriever
\* is there exactly once.
C19_FusionOrder ==
    sub_results # <<>> =>
        /\ Hybrid(retriever)
        /\ Len(sub_results) = 2
        /\ fused = FirstOccurrences(sub_results[1] \o sub_results[2])
        /\ IsSubseq(fused, sub_results[1] \o sub_results[2])
        /\ TextsOf(fused) = TextsOf(sub_results[1]) \cup TextsOf(sub_results[2])
        /\ Cardinality(TextsOf(fused)) = Len(fused)

\* BM25 ranked y before x, the vector store x before y before z.
C19_Witness ==
    /\ Len(sub_results) = 2
    /\ PageContents(sub_results[1]) = <<"y", "x">>
    /\ PageContents(sub_results[2]) = <<"x", "y", "z">>
    /\ PageContents(fused) = <<"y", "x", "z">>

(***************************************************************************)
(* ORDER OF THE STAGES                                                     *)
(***************************************************************************)

\* C20: a run goes through the Relevance Gate first and then through
\* Draft Generator and Verifier in turns, one stage call per step: a
\* research step that completes always leads to verify and never to the
\* end, verify is entered from research only, and the Verifier has never
\* been called more often than the Draft Generator.
C20_Order ==
    \A r \in Runs :
        /\ classification[r] = NoClass =>
              researcher_calls[r] = 0 /\ verifier_calls[r] = 0
        /\ verifier_calls[r] <= researcher_calls[r]
        /\ researcher_calls[r] <= verifier_calls[r] + 1
        /\ pc[r] = "verify" => researcher_calls[r] = verifier_calls[r] + 1
        /\ pc[r] \in {"research", "returned"} =>
              researcher_calls[r] = verifier_calls[r]

C20_Step ==
    \A r \in Runs :
        /\ (pc[r] = "research" /\ pc'[r] # "research" /\ raised'[r] = "none")
              => pc'[r] = "verify"
        /\ (pc[r] # "verify" /\ pc'[r] = "verify") => pc[r] = "research"
        /\ (pc[r] # "research" /\ pc'[r] = "research")
              => pc[r] \in {"check_relevance", "verify"}
        /\ (pc[r] # "check_relevance" /\ pc'[r] = "check_relevance")
              => pc[r] = "start"
        /\ (pc[r] # "returned" /\ pc'[r] = "returned")
              => pc[r] \in {"check_relevance", "verify"}
        /\ (researcher_calls'[r] - researcher_calls[r])
               + (verifier_calls'[r] - verifier_calls[r]) \in {0, 1}
        /\ researcher_calls'[r] # researcher_calls[r] => pc[r] = "research"
        /\ verifier_calls'[r] # verifier_calls[r] => pc[r] = "verify"

C20_StageOrdering == []C20_Order /\ [][C20_Step]_vars

\* Two full cycles: gate, draft, verify, draft, verify, end.
C20_Witness ==
    \E r \in Runs :
        /\ pc[r] = "returned"
        /\ classification[r] \in Relevant
        /\ researcher_calls[r] = 2
        /\ verifier_calls[r] = 2

(***************************************************************************)
(* THE AGENT STATE OF A RUN                                                *)
(***************************************************************************)

\* C21: once full_pipeline has built the Agent State, no step of the graph
\* changes its question or its documents, and every generate and every
\* verifier check call of the run, retries included, was given these
\* documents (and generate this question).
C21_Args ==
    \A r \in Runs :
        /\ researcher_calls[r] > 0 =>
              stage_args[r].researcher =
                  [question |-> state[r].question,
                   documents |-> state[r].documents]
        /\ verifier_calls[r] > 0 =>
              stage_args[r].verifier.documents = state[r].documents

C21_Step ==
    \A r \in Runs :
        pc[r] # "start" =>
            /\ state'[r].question = state[r].question
            /\ state'[r].documents = state[r].documents

C21_EvidenceFixed == []C21_Args /\ [][C21_Step]_vars

\* A run over one piece of evidence is in its second cycle.
C21_Witness ==
    \E r \in Runs :
        /\ state[r].documents = <<"e1">>
        /\ researcher_calls[r] = 2
        /\ verifier_calls[r] = 2
        /\ stage_args[r].researcher.documents = <<"e1">>
        /\ stage_args[r].verifier.documents = <<"e1">>
        /\ raised[r] = "none"

\* C22: when full_pipeline has returned for a question the gate let through,
\* the returned draft is the answer the last Verifier call was given and the
\* returned report is what that call returned; the draft is also the last
\* one written.
C22_ReportMatchesDraft ==
    \A r \in Runs :
        (pc[r] = "returned" /\ state[r].is_relevant) =>
            /\ verifier_calls[r] >= 1
            /\ result[r].draft_answer = stage_args[r].verifier.answer
            /\ result[r].verification_report = stage_args[r].report
            /\ result[r].draft_answer = state[r].draft_answer

\* The run returned from its second cycle with the second report.
C22_Witness ==
    \E r \in Runs :
        /\ pc[r] = "returned"
        /\ state[r].is_relevant
        /\ researcher_calls[r] = 2
        /\ verifier_calls[r] = 2
        /\ result[r].draft_answer = "draft_b"
        /\ result[r].verification_report = SupportedYes \o RelevantYes

\* All that belongs to run r.
OfRun(r) ==
    <<pc[r], state[r], result[r], raised[r], classification[r],
      researcher_calls[r], verifier_calls[r], all_unsupported[r],
      stage_args[r]>>

\* C23: with two full_pipeline invocations interleaved stage by stage, a
\* step of one invocation leaves the Agent State and the result of the other
\* as they were, and what an invocation returns is made of its own stage
\* outputs as in a run alone: the draft its last Verifier call was given and
\* the report that call returned, or the fixed message and no report when
\* its own gate answer closed the gate.
C23_Step ==
    \A r \in Runs :
        OfRun(r)' # OfRun(r) =>
            \A other \in Runs \ {r} : OfRun(other)' = OfRun(other)

C23_Own ==
    \A r \in Runs :
        pc[r] = "returned" =>
            /\ result[r] = final_result(state[r])
            /\ IF classification[r] \in Relevant
               THEN /\ result[r].draft_answer = stage_args[r].verifier.answer
                    /\ result[r].verification_report = stage_args[r].report
               ELSE /\ result[r].draft_answer = NOT_RELEVANT
                    /\ result[r].verification_report = <<>>

C23_Isolation == []C23_Own /\ [][C23_Step]_vars

\* Both invocations are under way, each at its Verifier with its own
\* evidence and its own draft, the second in its second cycle.
C23_Witness ==
    /\ Runs = {1, 2}
    /\ pc[1] = "verify"
    /\ pc[2] = "verify"
    /\ state[1].documents = <<>>
    /\ state[2].documents = <<"e1">>
    /\ state[1].draft_answer = "draft_a"
    /\ state[2].draft_answer = "draft_b"
    /\ researcher_calls[1] = 1
    /\ researcher_calls[2] = 2
    /\ state[2].verification_report = RelevantNo

(***************************************************************************)
(* PROPERTIES OF THE UI SESSION                                            *)
(***************************************************************************)

\* The step is a click on Submit.
SubmitStep == submits' = submits + 1

\* C24: a submit calls full_pipeline only with a retriever that was built
\* from files with the hash set of the files now uploaded; file_hashes and
\* retriever of the session change together, in a submit whose build has
\* returned; and a submit whose processing or build raises leaves both as
\* they were and calls no pipeline.
C24_Call ==
    pipeline_call.called =>
        /\ pipeline_call.retriever # None
        /\ pipeline_call.built_from = pipeline_call.current_hashes

C24_Together ==
    IF session.retriever = None
    THEN session.file_hashes = {}
    ELSE session.file_hashes = built_from

C24_Step ==
    /\ (SubmitStep /\ ~pipeline_call'.called) =>
           session' = session /\ built_from' = built_from
    /\ (session'.file_hashes # session.file_hashes
        \/ session'.retriever # session.retriever) =>
           /\ SubmitStep
           /\ pipeline_call'.called
           /\ session'.retriever = [build |-> submits']
           /\ session'.file_hashes = pipeline_call'.current_hashes

C24_SessionRebuild == []C24_Call /\ []C24_Together /\ [][C24_Step]_vars

\* The first submit built a retriever; other files were uploaded and the
\* second submit raised while rebuilding: the session still holds the first
\* retriever and its hashes, and no pipeline was called.
C24_Witness ==
    /\ submits = 2
    /\ ~pipeline_call.called
    /\ session.retriever = [build |-> 1]
    /\ session.file_hashes = {generate_hash(<<"x">>)}
    /\ session.uploaded_files = <<File("b", ".pdf", <<"y", "x">>)>>

(***************************************************************************)
(* PROPERTIES OF CONCURRENT process INVOCATIONS                            *)
(***************************************************************************)

\* C25: the cache file an invocation is in the middle of writing (opened,
\* pickle not yet written) passes the validity check of any other
\* invocation; an invocation loads only after the check has passed, without
\* looking again; and loading a file that holds no complete pickle makes
\* the invocation give up its file.
C25_MidWrite ==
    \A w \in Workers :
        workers[w].pc = "dump" =>
            is_cache_valid(cache_dir, chunk_cache_path(w), now)

C25_Step ==
    \A w \in Workers :
        /\ (workers[w].pc = "check" /\ workers'[w].pc # "check") =>
              workers'[w].pc =
                  IF is_cache_valid(cache_dir, chunk_cache_path(w), now)
                  THEN "load" ELSE "extract"
        /\ workers'[w].pc = "load" => workers[w].pc \in {"check", "load"}
        /\ (workers[w].pc = "load" /\ workers'[w].pc # "load") =>
              IF cache_dir[chunk_cache_path(w)].loadable
              THEN /\ workers'[w].pc = "done"
                   /\ workers'[w].chunks =
                          load_from_cache(cache_dir, chunk_cache_path(w))
              ELSE /\ workers'[w].pc = "failed"
                   /\ workers'[w].chunks = <<>>

C25_CacheRace == []C25_MidWrite /\ [][C25_Step]_vars

\* Invocation 1 has opened the cache file of a.txt and not yet written the
\* pickle; invocation 2, at the copy d.txt, has passed the validity check
\* on that file, tried to load it and given d.txt up.
C25_Witness ==
    /\ workers[1].pc = "dump"
    /\ workers[1].file = File("a", ".txt", <<"x">>)
    /\ workers[2].pc = "failed"
    /\ workers[2].file = File("d", ".txt", <<"x">>)
    /\ cache_dir[chunk_cache_path(1)].exists
    /\ ~cache_dir[chunk_cache_path(1)].loadable

====
